---- MODULE Spec2Model ----
(***************************************************************************)
(* WTF::LikelyDenseUnsignedIntegerSet<IndexType>                            *)
(* (Source/WTF/wtf/LikelyDenseUnsignedIntegerSet.h), instantiated with      *)
(* IndexType = uint16_t; the section on uint64_t models add once more for   *)
(* that instantiation, where the `unsigned` temporaries of add truncate.    *)
(*                                                                          *)
(* An object is the record [m_size, m_min, m_max, m_inline]; m_inline is    *)
(* the union U, written as the representation that was last constructed in  *)
(* it: [kind |-> "bitVector", numBits, bits] or [kind |-> "hashSet", keys,  *)
(* capacity].  BitVector and HashSet are the two primitives of WTF the      *)
(* header builds on; they are modelled by their contract.                   *)
(*                                                                          *)
(* m_size is an `unsigned`.  Every count the model reaches is far below     *)
(* 2^31; the one large value it takes, std::numeric_limits<unsigned>::max() *)
(* = 2^32 - 1, is written as its two's-complement residue -1 (so that       *)
(* UnsignedMax + 1 = 0, as in arithmetic modulo 2^32).                      *)
(***************************************************************************)
EXTENDS Integers, Sequences, FiniteSets, Bags, TLC

(***************************************************************************)
(* Program constants                                                        *)
(***************************************************************************)
SizeofIndexType == 2
IndexTypeMax == 65535
UnsignedMax == -1
hashSetEstimatedOccupancyOverhead == 3
MinimumTableSize == 8
MaxInlineBits == 63
\* sizeof(LikelyDenseUnsignedIntegerSet<uint16_t>): the union, m_size, m_min, m_max
SizeofSet == 16

\* UnsignedWithZeroKeyHashTraits<IndexType>: the two reserved values.
EmptyValue == IndexTypeMax
DeletedValue == IndexTypeMax - 1

(***************************************************************************)
(* Bounds of the model                                                      *)
(***************************************************************************)
\* number of filler values 10, 11, ... offered to add in ascending order
FillCount == 32
\* RangeSpec: the number of values at the top end of the range that come in any
\* order (the others come in ascending order)
TopCount == 3
\* RangeSpec: the largest value of the long ranges
RangeEnd == 800

FreeValues == {0, 775, 776, 1000, 5000}
FillValues == 10 .. (10 + FillCount - 1)
Sentinels == {EmptyValue, DeletedValue}
ValidValues == FreeValues \cup FillValues
\* values never offered to add, probed by contains
ProbeValues == {1, 9, 777, 4000, IndexTypeMax - 2}
\* arguments of the contains calls the program makes
QueryValues == {0, 9, 1000}

Min(a, b) == IF a < b THEN a ELSE b
Max(a, b) == IF a > b THEN a ELSE b

(***************************************************************************)
(* BitVector (wtf/BitVector.h), by contract                                 *)
(***************************************************************************)
\* BitVector(): inline storage, no bit set
EmptyBitVector == [kind |-> "bitVector", numBits |-> MaxInlineBits, bits |-> {}]

\* BitVector::get(bit): false beyond size()
BitVectorGet(bv, bit) == bit < bv.numBits /\ bit \in bv.bits

\* BitVector::ensureSize(numBits)
BitVectorEnsureSize(bv, n) == [bv EXCEPT !.numBits = Max(bv.numBits, n)]

\* BitVector::resize(numBits): an inline vector always has MaxInlineBits bits
BitVectorResize(bv, n) ==
    [bv EXCEPT !.numBits = IF n <= MaxInlineBits THEN MaxInlineBits ELSE n]

\* BitVector::quickSet(bit): sets the bit, returns its previous value
BitVectorQuickSet(bv, bit) ==
    [bv |-> [bv EXCEPT !.bits = bv.bits \cup {bit}], was |-> bit \in bv.bits]

\* BitVector::set(bit): ensureSize(bit + 1), then quickSet(bit)
BitVectorSet(bv, bit) == BitVectorQuickSet(BitVectorEnsureSize(bv, bit + 1), bit)

\* BitVector::begin() .. end(): scans the positions 0 .. size() - 1 and yields
\* those of the set bits, ascending
BitVectorIterate(bv) ==
    SelectSeq([i \in 1 .. bv.numBits |-> i - 1], LAMBDA bit : bit \in bv.bits)

\* BitVector::outOfLineMemoryUse(): the word array of an out-of-line vector
BitVectorOutOfLineMemoryUse(bv) ==
    IF bv.numBits <= MaxInlineBits THEN 0
    ELSE 8 + 8 * ((bv.numBits + 63) \div 64)

(***************************************************************************)
(* HashSet<IndexType, IntHash, UnsignedWithZeroKeyHashTraits> (wtf/HashSet.h)*)
(* by contract: a power-of-two table of at least MinimumTableSize buckets   *)
(* that doubles when it becomes half full.                                  *)
(***************************************************************************)
EmptyHashSet == [kind |-> "hashSet", keys |-> {}, capacity |-> 0]

HashSetShouldExpand(keyCount, tableSize) == keyCount * 2 >= tableSize

RECURSIVE HashSetBestTableSize(_, _)
HashSetBestTableSize(keyCount, tableSize) ==
    IF HashSetShouldExpand(keyCount, tableSize)
    THEN HashSetBestTableSize(keyCount, tableSize * 2)
    ELSE tableSize

\* HashSet::reserveInitialCapacity(keyCount) on an empty set
HashSetReserveInitialCapacity(h, keyCount) ==
    [h EXCEPT !.capacity = HashSetBestTableSize(keyCount, MinimumTableSize)]

HashSetContains(h, value) == value \in h.keys

HashSetSize(h) == Cardinality(h.keys)

HashSetCapacity(h) == h.capacity

\* HashSet::add(value) of a value that is not reserved
HashSetAdd(h, value) ==
    IF value \in h.keys
    THEN [h |-> h, isNewEntry |-> FALSE]
    ELSE LET keys == h.keys \cup {value}
             table == IF h.capacity = 0 THEN MinimumTableSize ELSE h.capacity
         IN  [h |-> [h EXCEPT !.keys = keys,
                              !.capacity = HashSetBestTableSize(Cardinality(keys), table)],
              isNewEntry |-> TRUE]

\* HashSet::add(value) of a reserved value: the table's contract is broken and
\* either outcome may be observed
HashSetAddReserved(h, value, choice) ==
    [h |-> IF choice THEN [h EXCEPT !.keys = h.keys \cup {value}] ELSE h,
     isNewEntry |-> choice]

\* HashSet::begin() .. end(): every key once, in an order the table fixes
RECURSIVE HashSetIterate(_)
HashSetIterate(keys) ==
    IF keys = {} THEN << >>
    ELSE LET k == CHOOSE x \in keys : TRUE
         IN  << k >> \o HashSetIterate(keys \ {k})

(***************************************************************************)
(* LikelyDenseUnsignedIntegerSet                                            *)
(***************************************************************************)
\* LikelyDenseUnsignedIntegerSet()
Construct ==
    [m_size |-> 0, m_min |-> 0, m_max |-> 0, m_inline |-> EmptyBitVector]

isBitVector(self) == self.m_size # UnsignedMax

\* mutant: the deleted value is not excluded
isValidValue_EmptyOnly(value) == value # EmptyValue

isValidValue(value) == value # EmptyValue /\ ~(value = DeletedValue)

\* mutant: the least member is taken to lie below the bitmap
contains_MinExcluded(self, value) ==
    IF isBitVector(self)
    THEN IF self.m_min >= value THEN FALSE
         ELSE BitVectorGet(self.m_inline, value - self.m_min)
    ELSE HashSetContains(self.m_inline, value)

contains(self, value) ==
    IF isBitVector(self)
    THEN IF self.m_min > value THEN FALSE
         ELSE BitVectorGet(self.m_inline, value - self.m_min)
    ELSE HashSetContains(self.m_inline, value)

size(self) ==
    IF isBitVector(self) THEN self.m_size ELSE HashSetSize(self.m_inline)

\* for (IndexType oldIndex : m_inline.bitVector) newSet.add(oldIndex + m_min);
RECURSIVE AddShifted(_, _, _)
AddShifted(newSet, indexes, shift) ==
    IF indexes = << >> THEN newSet
    ELSE AddShifted(HashSetAdd(newSet, Head(indexes) + shift).h, Tail(indexes), shift)

\* mutant: the bit positions are inserted without m_min
transitionToHashSet_Unshifted(self) ==
    LET newSet == AddShifted(HashSetReserveInitialCapacity(EmptyHashSet, self.m_size + 1),
                             BitVectorIterate(self.m_inline), 0)
    IN  [self EXCEPT !.m_inline = newSet, !.m_size = UnsignedMax]

transitionToHashSet(self) ==
    LET newSet == AddShifted(HashSetReserveInitialCapacity(EmptyHashSet, self.m_size + 1),
                             BitVectorIterate(self.m_inline), self.m_min)
    IN  [self EXCEPT !.m_inline = newSet, !.m_size = UnsignedMax]

\* for (IndexType oldValue : m_inline.hashSet) { quickSet(oldValue - m_min); ++m_size; }
RECURSIVE QuickSetShifted(_, _, _)
QuickSetShifted(acc, values, shift) ==
    IF values = << >> THEN acc
    ELSE QuickSetShifted([bv |-> BitVectorQuickSet(acc.bv, Head(values) - shift).bv,
                          m_size |-> acc.m_size + 1],
                         Tail(values), shift)

\* mutant: m_size is not reset to 0 before the members are counted
transitionToBitVector_SizeNotReset(self) ==
    LET newBitVector == BitVectorEnsureSize(EmptyBitVector, self.m_max - self.m_min + 1)
        filled == QuickSetShifted([bv |-> newBitVector, m_size |-> self.m_size],
                                  HashSetIterate(self.m_inline.keys), self.m_min)
    IN  [self EXCEPT !.m_inline = filled.bv, !.m_size = filled.m_size]

transitionToBitVector(self) ==
    LET newBitVector == BitVectorEnsureSize(EmptyBitVector, self.m_max - self.m_min + 1)
        filled == QuickSetShifted([bv |-> newBitVector, m_size |-> 0],
                                  HashSetIterate(self.m_inline.keys), self.m_min)
    IN  [self EXCEPT !.m_inline = filled.bv, !.m_size = filled.m_size]

\* m_inline.hashSet.add(value); a reserved value breaks the table's contract
hashSetAdd(h, value, choice) ==
    IF value \in Sentinels THEN HashSetAddReserved(h, value, choice)
    ELSE HashSetAdd(h, value)

\* for (IndexType oldIndex : m_inline.bitVector) newBitVector.quickSet(oldIndex + shiftReduction);
\* mutant: the downward extension copies the bits without re-basing them
RECURSIVE QuickSetRebased_Unshifted(_, _, _)
QuickSetRebased_Unshifted(newBitVector, indexes, shiftReduction) ==
    IF indexes = << >> THEN newBitVector
    ELSE QuickSetRebased_Unshifted(BitVectorQuickSet(newBitVector, Head(indexes)).bv,
                                   Tail(indexes), shiftReduction)

RECURSIVE QuickSetRebased(_, _, _)
QuickSetRebased(newBitVector, indexes, shiftReduction) ==
    IF indexes = << >> THEN newBitVector
    ELSE QuickSetRebased(BitVectorQuickSet(newBitVector, Head(indexes) + shiftReduction).bv,
                         Tail(indexes), shiftReduction)

\* add(value), first branch: the set is empty
addFirst(self, value) ==
    [self |-> [self EXCEPT !.m_min = value, !.m_max = value, !.m_size = 1,
                           !.m_inline = BitVectorQuickSet(self.m_inline, 0).bv],
     isNewEntry |-> TRUE, transition |-> "none", asserts |-> isBitVector(self)]

\* mutant: m_max is not updated in HashSet mode
addHashSet_StaleMax(self, value, choice) ==
    LET added == hashSetAdd(self.m_inline, value, choice)
        updated == [self EXCEPT !.m_inline = added.h,
                                !.m_min = Min(self.m_min, value),
                                !.m_max = self.m_max]
        hashSetSize == HashSetCapacity(updated.m_inline) * SizeofIndexType
        wouldBeBitVectorSize == (updated.m_max - updated.m_min) \div 8
    IN  IF ~added.isNewEntry
        THEN [self |-> [self EXCEPT !.m_inline = added.h],
              isNewEntry |-> FALSE, transition |-> "none", asserts |-> TRUE]
        ELSE IF wouldBeBitVectorSize * 2 < hashSetSize
        THEN LET transitioned == transitionToBitVector(updated)
             IN  [self |-> transitioned, isNewEntry |-> TRUE,
                  transition |-> "toBitVector",
                  asserts |-> /\ BitVectorGet(transitioned.m_inline, 0)
                              /\ isBitVector(transitioned)]
        ELSE [self |-> updated, isNewEntry |-> TRUE, transition |-> "none",
              asserts |-> TRUE]

\* mutant: HashSet mode is never left
addHashSet_NeverBack(self, value, choice) ==
    LET added == hashSetAdd(self.m_inline, value, choice)
        updated == [self EXCEPT !.m_inline = added.h,
                                !.m_min = Min(self.m_min, value),
                                !.m_max = Max(self.m_max, value)]
        hashSetSize == HashSetCapacity(updated.m_inline) * SizeofIndexType
        wouldBeBitVectorSize == (updated.m_max - updated.m_min) \div 8
    IN  IF ~added.isNewEntry
        THEN [self |-> [self EXCEPT !.m_inline = added.h],
              isNewEntry |-> FALSE, transition |-> "none", asserts |-> TRUE]
        ELSE IF wouldBeBitVectorSize * 2 < hashSetSize /\ FALSE
        THEN LET transitioned == transitionToBitVector(updated)
             IN  [self |-> transitioned, isNewEntry |-> TRUE,
                  transition |-> "toBitVector",
                  asserts |-> /\ BitVectorGet(transitioned.m_inline, 0)
                              /\ isBitVector(transitioned)]
        ELSE [self |-> updated, isNewEntry |-> TRUE, transition |-> "none",
              asserts |-> TRUE]

\* add(value), second branch: HashSet mode
addHashSet(self, value, choice) ==
    LET added == hashSetAdd(self.m_inline, value, choice)
        updated == [self EXCEPT !.m_inline = added.h,
                                !.m_min = Min(self.m_min, value),
                                !.m_max = Max(self.m_max, value)]
        hashSetSize == HashSetCapacity(updated.m_inline) * SizeofIndexType
        wouldBeBitVectorSize == (updated.m_max - updated.m_min) \div 8
    IN  IF ~added.isNewEntry
        THEN [self |-> [self EXCEPT !.m_inline = added.h],
              isNewEntry |-> FALSE, transition |-> "none", asserts |-> TRUE]
        ELSE IF wouldBeBitVectorSize * 2 < hashSetSize
        THEN LET transitioned == transitionToBitVector(updated)
             IN  [self |-> transitioned, isNewEntry |-> TRUE,
                  transition |-> "toBitVector",
                  asserts |-> /\ BitVectorGet(transitioned.m_inline, 0)
                              /\ isBitVector(transitioned)]
        ELSE [self |-> updated, isNewEntry |-> TRUE, transition |-> "none",
              asserts |-> TRUE]

\* mutant: m_size is incremented whether or not the bit was already set
addInBounds_AlwaysCounted(self, value) ==
    LET quickSet == BitVectorQuickSet(self.m_inline, value - self.m_min)
    IN  [self |-> [self EXCEPT !.m_inline = quickSet.bv, !.m_size = self.m_size + 1],
         isNewEntry |-> ~quickSet.was, transition |-> "none",
         asserts |-> value - self.m_min < self.m_inline.numBits]

\* mutant: the previous value of the bit is ignored
addInBounds_AlwaysNew(self, value) ==
    LET quickSet == BitVectorQuickSet(self.m_inline, value - self.m_min)
        isNewEntry == TRUE
    IN  [self |-> [self EXCEPT !.m_inline = quickSet.bv,
                               !.m_size = self.m_size + (IF isNewEntry THEN 1 ELSE 0)],
         isNewEntry |-> isNewEntry, transition |-> "none",
         asserts |-> value - self.m_min < self.m_inline.numBits]

\* add(value), third branch: BitVector mode, m_min <= value <= m_max
addInBounds(self, value) ==
    LET quickSet == BitVectorQuickSet(self.m_inline, value - self.m_min)
        isNewEntry == ~quickSet.was
    IN  [self |-> [self EXCEPT !.m_inline = quickSet.bv,
                               !.m_size = self.m_size + (IF isNewEntry THEN 1 ELSE 0)],
         isNewEntry |-> isNewEntry, transition |-> "none",
         asserts |-> value - self.m_min < self.m_inline.numBits]

\* mutant: the HashSet estimate is multiplied by 4, not by 2
addOutOfBounds_FourTimes(self, value, choice) ==
    LET counted == [self EXCEPT !.m_size = self.m_size + 1]
        newMin == Min(self.m_min, value)
        newMax == Max(self.m_max, value)
        bitVectorSize == (newMax - newMin) \div 8
        wouldBeHashSetCapacity == Max(8, counted.m_size) * hashSetEstimatedOccupancyOverhead
        wouldBeHashSetSize == wouldBeHashSetCapacity * SizeofIndexType
    IN  IF wouldBeHashSetSize * 4 < bitVectorSize
        THEN LET transitioned == transitionToHashSet(counted)
                 result == hashSetAdd(transitioned.m_inline, value, choice)
             IN  [self |-> [transitioned EXCEPT !.m_inline = result.h,
                                                !.m_min = newMin, !.m_max = newMax],
                  isNewEntry |-> TRUE, transition |-> "toHashSet",
                  asserts |-> ~isBitVector(transitioned) /\ result.isNewEntry]
        ELSE IF self.m_min <= value
        THEN LET set == BitVectorSet(self.m_inline, value - self.m_min)
             IN  [self |-> [counted EXCEPT !.m_inline = set.bv, !.m_max = value],
                  isNewEntry |-> TRUE, transition |-> "none",
                  asserts |-> ~set.was /\ newMax = value]
        ELSE LET shiftReduction == self.m_min - value
                 resized == BitVectorResize(EmptyBitVector, self.m_max - value + 1)
                 rebased == QuickSetRebased(resized, BitVectorIterate(self.m_inline),
                                            shiftReduction)
                 newBitVector == BitVectorQuickSet(rebased, 0).bv
             IN  [self |-> [counted EXCEPT !.m_inline = newBitVector, !.m_min = value],
                  isNewEntry |-> TRUE, transition |-> "none",
                  asserts |-> newMin = value]

\* add(value), rest: BitVector mode, value outside [m_min, m_max]
addOutOfBounds(self, value, choice) ==
    LET counted == [self EXCEPT !.m_size = self.m_size + 1]
        newMin == Min(self.m_min, value)
        newMax == Max(self.m_max, value)
        bitVectorSize == (newMax - newMin) \div 8
        wouldBeHashSetCapacity == Max(8, counted.m_size) * hashSetEstimatedOccupancyOverhead
        wouldBeHashSetSize == wouldBeHashSetCapacity * SizeofIndexType
    IN  IF wouldBeHashSetSize * 2 < bitVectorSize
        THEN LET transitioned == transitionToHashSet(counted)
                 result == hashSetAdd(transitioned.m_inline, value, choice)
             IN  [self |-> [transitioned EXCEPT !.m_inline = result.h,
                                                !.m_min = newMin, !.m_max = newMax],
                  isNewEntry |-> TRUE, transition |-> "toHashSet",
                  asserts |-> ~isBitVector(transitioned) /\ result.isNewEntry]
        ELSE IF self.m_min <= value
        THEN LET set == BitVectorSet(self.m_inline, value - self.m_min)
             IN  [self |-> [counted EXCEPT !.m_inline = set.bv, !.m_max = value],
                  isNewEntry |-> TRUE, transition |-> "none",
                  asserts |-> ~set.was /\ newMax = value]
        ELSE LET shiftReduction == self.m_min - value
                 resized == BitVectorResize(EmptyBitVector, self.m_max - value + 1)
                 rebased == QuickSetRebased(resized, BitVectorIterate(self.m_inline),
                                            shiftReduction)
                 newBitVector == BitVectorQuickSet(rebased, 0).bv
             IN  [self |-> [counted EXCEPT !.m_inline = newBitVector, !.m_min = value],
                  isNewEntry |-> TRUE, transition |-> "none",
                  asserts |-> newMin = value]

\* AddResult add(IndexType value), after its ASSERT(isValidValue(value))
add(self, value, choice) ==
    IF self.m_size = 0 THEN addFirst(self, value)
    ELSE IF ~isBitVector(self) THEN addHashSet(self, value, choice)
    ELSE IF value >= self.m_min /\ value <= self.m_max THEN addInBounds(self, value)
    ELSE addOutOfBounds(self, value, choice)

\* LikelyDenseUnsignedIntegerSet(LikelyDenseUnsignedIntegerSet&& other): the new
\* object and what is left in other.  Whether BitVector(BitVector&&) empties its
\* argument or copies it is the primitive's business: bitVectorEmptied.
moveConstruct(otherSet, bitVectorEmptied) ==
    LET self == [m_size |-> otherSet.m_size, m_min |-> otherSet.m_min,
                 m_max |-> otherSet.m_max, m_inline |-> otherSet.m_inline]
    IN  [self |-> self,
         other |-> [otherSet EXCEPT !.m_inline =
                       IF isBitVector(self)
                       THEN IF bitVectorEmptied THEN EmptyBitVector ELSE otherSet.m_inline
                       ELSE EmptyHashSet]]

\* class iterator: the underlying iterator is the sequence it has yet to yield
begin(self) ==
    IF isBitVector(self)
    THEN [kind |-> "bitVector", m_underlying |-> BitVectorIterate(self.m_inline),
          m_shift |-> self.m_min]
    ELSE [kind |-> "hashSet", m_underlying |-> HashSetIterate(self.m_inline.keys),
          m_shift |-> self.m_min]

end(self) ==
    IF isBitVector(self)
    THEN [kind |-> "bitVector", m_underlying |-> << >>, m_shift |-> self.m_min]
    ELSE [kind |-> "hashSet", m_underlying |-> << >>, m_shift |-> self.m_min]

\* iterator::operator++
iteratorIncrement(it) == [it EXCEPT !.m_underlying = Tail(it.m_underlying)]

\* mutant: m_shift is added in HashSet mode too
iteratorDereference_AlwaysShifted(it) == Head(it.m_underlying) + it.m_shift

\* iterator::operator*
iteratorDereference(it) ==
    IF it.kind = "bitVector" THEN Head(it.m_underlying) + it.m_shift
    ELSE Head(it.m_underlying)

\* iterator::operator!=
iteratorNotEqual(it, otherIt) ==
    it.m_underlying # otherIt.m_underlying \/ it.m_shift # otherIt.m_shift

\* for (IndexType value : set): the values yielded from begin() up to end()
RECURSIVE iterateFrom(_, _)
iterateFrom(it, endIt) ==
    IF ~iteratorNotEqual(it, endIt) THEN << >>
    ELSE << iteratorDereference(it) >> \o iterateFrom(iteratorIncrement(it), endIt)

iterate(self) == iterateFrom(begin(self), end(self))

memoryUse(self) ==
    IF isBitVector(self)
    THEN SizeofSet + BitVectorOutOfLineMemoryUse(self.m_inline)
    ELSE SizeofSet + HashSetCapacity(self.m_inline) * SizeofIndexType

\* the loops of validate(): min, max (and numElements) over the indexes
RECURSIVE validateScan(_, _, _)
validateScan(acc, indexes, shift) ==
    IF indexes = << >> THEN acc
    ELSE LET correctedIndex == shift + Head(indexes)
         IN  validateScan([numElements |-> acc.numElements + 1,
                           min |-> Min(acc.min, correctedIndex),
                           max |-> Max(acc.max, correctedIndex)],
                          Tail(indexes), shift)

\* validate(): TRUE when none of its RELEASE_ASSERTs fails
validate(self) ==
    LET start == [numElements |-> 0, min |-> IndexTypeMax, max |-> 0]
        scan == IF isBitVector(self)
                THEN validateScan(start, BitVectorIterate(self.m_inline), self.m_min)
                ELSE validateScan(start, HashSetIterate(self.m_inline.keys), 0)
    IN  /\ isBitVector(self) => self.m_size = scan.numElements
        /\ self.m_size # 0 => (self.m_min = scan.min /\ self.m_max = scan.max)

(***************************************************************************)
(* The instantiation IndexType = uint64_t                                   *)
(*                                                                          *)
(* Its values, and the counts of its large sets, lie beyond the integers of *)
(* the model checker, so a number is written as the record [hi, lo] of      *)
(* value hi * 2^16 + lo with 0 <= lo < 2^16.  A conversion to `unsigned`    *)
(* keeps the low 32 bits: hi modulo 2^16.                                   *)
(*                                                                          *)
(* The members are not kept bit by bit.  m_inline holds `dense`, standing   *)
(* for the members 0 .. dense - 1, and `extras`, the finite set of the      *)
(* members above dense; `capacity` is the table size of a HashSet.          *)
(***************************************************************************)
SizeofIndexType64 == 8
WideBase == 65536

Wide(n) == [hi |-> n \div WideBase, lo |-> n % WideBase]

WideLess(a, b) == a.hi < b.hi \/ (a.hi = b.hi /\ a.lo < b.lo)

WideMin(a, b) == IF WideLess(a, b) THEN a ELSE b
WideMax(a, b) == IF WideLess(b, a) THEN a ELSE b

WidePlus(a, b) ==
    LET lo == a.lo + b.lo
    IN  [hi |-> a.hi + b.hi + lo \div WideBase, lo |-> lo % WideBase]

\* a - b, for b <= a
WideMinus(a, b) ==
    LET borrow == IF a.lo < b.lo THEN 1 ELSE 0
    IN  [hi |-> a.hi - b.hi - borrow, lo |-> a.lo + borrow * WideBase - b.lo]

\* a * c, for a small factor c
WideTimes(a, c) ==
    LET lo == a.lo * c
    IN  [hi |-> a.hi * c + lo \div WideBase, lo |-> lo % WideBase]

\* a / 8, rounded down
WideDiv8(a) == [hi |-> a.hi \div 8, lo |-> ((a.hi % 8) * WideBase + a.lo) \div 8]

\* the value an `unsigned` takes when it is assigned a, and the result of
\* `unsigned` arithmetic: a modulo 2^32
toUnsigned(a) == [hi |-> a.hi % WideBase, lo |-> a.lo]

\* std::numeric_limits<unsigned>::max()
UnsignedMax64 == [hi |-> WideBase - 1, lo |-> WideBase - 1]

\* whether value is among the members m_inline stands for
Member64(inline, value) == WideLess(value, inline.dense) \/ value \in inline.extras

\* the number of members
Count64(inline) == WidePlus(inline.dense, Wide(Cardinality(inline.extras)))

\* m_inline with one more member, which was not among them
RECURSIVE Absorb64(_)
Absorb64(inline) ==
    IF inline.dense \in inline.extras
    THEN Absorb64([inline EXCEPT !.dense = WidePlus(inline.dense, Wide(1)),
                                 !.extras = inline.extras \ {inline.dense}])
    ELSE inline

Insert64(inline, value) == Absorb64([inline EXCEPT !.extras = inline.extras \cup {value}])

\* the table size of a HashSet holding keyCount keys
RECURSIVE HashSetBestTableSize64(_, _)
HashSetBestTableSize64(keyCount, tableSize) ==
    IF ~WideLess(WideTimes(keyCount, 2), tableSize)
    THEN HashSetBestTableSize64(keyCount, WideTimes(tableSize, 2))
    ELSE tableSize

\* HashSet::add(value)
hashSetAdd64(inline, value) ==
    IF Member64(inline, value)
    THEN [h |-> inline, isNewEntry |-> FALSE]
    ELSE LET added == Insert64(inline, value)
         IN  [h |-> [added EXCEPT !.capacity =
                        HashSetBestTableSize64(Count64(added), inline.capacity)],
              isNewEntry |-> TRUE]

\* LikelyDenseUnsignedIntegerSet<uint64_t>()
Construct64 ==
    [m_size |-> Wide(0), m_min |-> Wide(0), m_max |-> Wide(0),
     m_inline |-> [kind |-> "bitVector", dense |-> Wide(0), extras |-> {},
                   capacity |-> Wide(0)]]

isBitVector64(self) == self.m_size # UnsignedMax64

\* the new table is sized for m_size + 1 keys and takes the members of the bitmap
transitionToHashSet64(self) ==
    [self EXCEPT
        !.m_inline = [self.m_inline EXCEPT
            !.kind = "hashSet",
            !.capacity = HashSetBestTableSize64(toUnsigned(WidePlus(self.m_size, Wide(1))),
                                                Wide(MinimumTableSize))],
        !.m_size = UnsignedMax64]

\* m_size is counted up from 0, once for each key
transitionToBitVector64(self) ==
    [self EXCEPT
        !.m_inline = [self.m_inline EXCEPT !.kind = "bitVector", !.capacity = Wide(0)],
        !.m_size = toUnsigned(Count64(self.m_inline))]

\* add, as instantiated for uint64_t: the four branches of add, every
\* `unsigned` of the source being converted where the source assigns it
add64(self, value) ==
    IF self.m_size = Wide(0)
    THEN [self |-> [self EXCEPT !.m_min = value, !.m_max = value, !.m_size = Wide(1),
                                !.m_inline = Insert64(self.m_inline, value)],
          isNewEntry |-> TRUE, transition |-> "none"]
    ELSE IF ~isBitVector64(self)
    THEN LET added == hashSetAdd64(self.m_inline, value)
             updated == [self EXCEPT !.m_inline = added.h,
                                     !.m_min = WideMin(self.m_min, value),
                                     !.m_max = WideMax(self.m_max, value)]
             hashSetSize ==
                 toUnsigned(WideTimes(updated.m_inline.capacity, SizeofIndexType64))
             wouldBeBitVectorSize ==
                 toUnsigned(WideDiv8(WideMinus(updated.m_max, updated.m_min)))
         IN  IF ~added.isNewEntry
             THEN [self |-> self, isNewEntry |-> FALSE, transition |-> "none"]
             ELSE IF WideLess(toUnsigned(WideTimes(wouldBeBitVectorSize, 2)), hashSetSize)
             THEN [self |-> transitionToBitVector64(updated), isNewEntry |-> TRUE,
                   transition |-> "toBitVector"]
             ELSE [self |-> updated, isNewEntry |-> TRUE, transition |-> "none"]
    ELSE IF ~WideLess(value, self.m_min) /\ ~WideLess(self.m_max, value)
    THEN LET isNewEntry == ~Member64(self.m_inline, value)
         IN  [self |-> IF isNewEntry
                       THEN [self EXCEPT
                                !.m_inline = Insert64(self.m_inline, value),
                                !.m_size = toUnsigned(WidePlus(self.m_size, Wide(1)))]
                       ELSE self,
              isNewEntry |-> isNewEntry, transition |-> "none"]
    ELSE LET counted == [self EXCEPT !.m_size = toUnsigned(WidePlus(self.m_size, Wide(1)))]
             newMin == WideMin(self.m_min, value)
             newMax == WideMax(self.m_max, value)
             bitVectorSize == toUnsigned(WideDiv8(WideMinus(newMax, newMin)))
             wouldBeHashSetCapacity ==
                 toUnsigned(WideTimes(WideMax(Wide(8), counted.m_size),
                                      hashSetEstimatedOccupancyOverhead))
             wouldBeHashSetSize ==
                 toUnsigned(WideTimes(wouldBeHashSetCapacity, SizeofIndexType64))
         IN  IF WideLess(toUnsigned(WideTimes(wouldBeHashSetSize, 2)), bitVectorSize)
             THEN LET transitioned == transitionToHashSet64(counted)
                      result == hashSetAdd64(transitioned.m_inline, value)
                  IN  [self |-> [transitioned EXCEPT !.m_inline = result.h,
                                                     !.m_min = newMin, !.m_max = newMax],
                       isNewEntry |-> TRUE, transition |-> "toHashSet"]
             ELSE [self |-> [counted EXCEPT !.m_inline = Insert64(self.m_inline, value),
                                            !.m_min = newMin, !.m_max = newMax],
                   isNewEntry |-> TRUE, transition |-> "none"]

\* add(dense), add(dense + 1), ..., add(target - 1) in turn, where each value
\* lies inside [m_min, m_max] and is new: each call takes the branch of add for
\* a value inside the bounds, sets a bit and increments m_size
addRun64(self, target) ==
    [self EXCEPT
        !.m_size = toUnsigned(WidePlus(self.m_size, WideMinus(target, self.m_inline.dense))),
        !.m_inline = Absorb64([self.m_inline EXCEPT !.dense = target])]

(***************************************************************************)
(* The program: one set, built by a sequence of add calls and observed by   *)
(* the queries; it may be handed to the move constructor, after which the   *)
(* new object is the set and the moved-from one is kept in other until the  *)
(* next call.                                                               *)
(***************************************************************************)
VARIABLES
    m_size, m_min, m_max, m_inline, \* the fields of the set
    other,          \* << >>, or << the moved-from object >> after a move construction
    assertEnabled,  \* whether ASSERT is compiled in (ASSERT_ENABLED, debug builds)
    status,         \* "ok", "assertionFailed", "releaseAssertFailed", "preconditionViolated"
    last,           \* the last call: operation, argument, results
    inserted,       \* history: the valid values passed to add so far
    everHashSet,    \* history: the set has been in HashSet mode
    range,          \* RangeSpec: << a, b >>, the range being inserted; << >> in Spec
    set64,          \* WideSpec: the set instantiated for uint64_t
    enteredWith     \* WideSpec, history: the number of members the set had when it
                    \* last went to HashSet mode

vars == << m_size, m_min, m_max, m_inline, other, assertEnabled, status, last, inserted,
           everHashSet, range, set64, enteredWith >>
fields == << m_size, m_min, m_max, m_inline >>
wides == << set64, enteredWith >>

This == [m_size |-> m_size, m_min |-> m_min, m_max |-> m_max, m_inline |-> m_inline]

Call(op, value, flag, num, transition) ==
    [op |-> op, value |-> value, flag |-> flag, num |-> num, transition |-> transition]

Init ==
    /\ m_size = Construct.m_size
    /\ m_min = Construct.m_min
    /\ m_max = Construct.m_max
    /\ m_inline = Construct.m_inline
    /\ other = << >>
    /\ assertEnabled \in BOOLEAN
    /\ status = "ok"
    /\ last = Call("construct", 0, FALSE, 0, "none")
    /\ inserted = {}
    /\ everHashSet = FALSE
    /\ range = << >>
    /\ set64 = Construct64
    /\ enteredWith = Wide(0)

\* the values add is called with: the filler values come in ascending order,
\* and only the latest of them is added again
Offered ==
    LET filled == Cardinality(inserted \cap FillValues)
    IN  FreeValues \cup Sentinels
            \cup {f \in FillValues : f = 10 + filled \/ f = 10 + filled - 1}

\* ASSERT(isValidValue(value)) fails: the program stops there
AssertionFailure(op, value) ==
    /\ assertEnabled
    /\ ~isValidValue(value)
    /\ status' = "assertionFailed"
    /\ last' = Call(op, value, FALSE, 0, "assert")
    /\ other' = << >>
    /\ UNCHANGED << fields, assertEnabled, inserted, everHashSet, range, wides >>

\* set.add(value)
AddCall(value) ==
    /\ status = "ok"
    /\ \/ AssertionFailure("add", value)
       \/ /\ assertEnabled => isValidValue(value)
          /\ \E choice \in (IF value \in Sentinels THEN BOOLEAN ELSE {FALSE}) :
                \E result \in {add(This, value, choice)} :
                    /\ m_size' = result.self.m_size
                    /\ m_min' = result.self.m_min
                    /\ m_max' = result.self.m_max
                    /\ m_inline' = result.self.m_inline
                    /\ last' = Call("add", value, result.isNewEntry, 0, result.transition)
                    /\ everHashSet' = (everHashSet \/ ~isBitVector(result.self))
                    /\ status' = IF assertEnabled /\ ~result.asserts THEN "assertionFailed"
                                 ELSE IF value \in Sentinels THEN "preconditionViolated"
                                 ELSE "ok"
          /\ inserted' = IF value \in Sentinels THEN inserted ELSE inserted \cup {value}
          /\ other' = << >>
          /\ UNCHANGED << assertEnabled, range, wides >>

\* set.contains(value)
ContainsCall(value) ==
    /\ status = "ok"
    /\ \/ AssertionFailure("contains", value)
       \/ /\ assertEnabled => isValidValue(value)
          /\ \E choice \in (IF value \in Sentinels /\ ~isBitVector(This)
                             THEN BOOLEAN ELSE {FALSE}) :
                last' = Call("contains", value,
                             IF value \in Sentinels /\ ~isBitVector(This)
                             THEN choice ELSE contains(This, value),
                             0, "none")
          /\ status' = IF value \in Sentinels THEN "preconditionViolated" ELSE "ok"
          /\ other' = << >>
          /\ UNCHANGED << fields, assertEnabled, inserted, everHashSet, range, wides >>

\* set.size()
SizeCall ==
    /\ status = "ok"
    /\ last' = Call("size", 0, FALSE, size(This), "none")
    /\ other' = << >>
    /\ UNCHANGED << fields, assertEnabled, status, inserted, everHashSet, range, wides >>

\* for (auto value : set)
IterateCall ==
    /\ status = "ok"
    /\ last' = Call("iterate", 0, FALSE, Len(iterate(This)), "none")
    /\ other' = << >>
    /\ UNCHANGED << fields, assertEnabled, status, inserted, everHashSet, range, wides >>

\* set.memoryUse()
MemoryUseCall ==
    /\ status = "ok"
    /\ last' = Call("memoryUse", 0, FALSE, memoryUse(This), "none")
    /\ other' = << >>
    /\ UNCHANGED << fields, assertEnabled, status, inserted, everHashSet, range, wides >>

\* set.validate()
ValidateCall ==
    /\ status = "ok"
    /\ \E passed \in {validate(This)} :
          /\ last' = Call("validate", 0, passed, 0, "none")
          /\ status' = IF passed THEN "ok" ELSE "releaseAssertFailed"
    /\ other' = << >>
    /\ UNCHANGED << fields, assertEnabled, inserted, everHashSet, range, wides >>

\* LikelyDenseUnsignedIntegerSet moved(WTFMove(set))
MoveConstructCall ==
    /\ status = "ok"
    /\ other = << >>
    /\ \E bitVectorEmptied \in BOOLEAN :
          \E moved \in {moveConstruct(This, bitVectorEmptied)} :
              /\ m_size' = moved.self.m_size
              /\ m_min' = moved.self.m_min
              /\ m_max' = moved.self.m_max
              /\ m_inline' = moved.self.m_inline
              /\ other' = << moved.other >>
    /\ last' = Call("move", 0, FALSE, 0, "none")
    /\ UNCHANGED << assertEnabled, status, inserted, everHashSet, range, wides >>

Next ==
    \/ \E value \in Offered : AddCall(value)
    \/ \E value \in QueryValues \cup Sentinels : ContainsCall(value)
    \/ SizeCall
    \/ IterateCall
    \/ MemoryUseCall
    \/ ValidateCall
    \/ MoveConstructCall

Spec == Init /\ [][Next]_vars

\* the members the representation holds, read without the set's own queries
Members ==
    IF m_inline.kind = "bitVector" THEN {m_min + bit : bit \in m_inline.bits}
    ELSE m_inline.keys

TypeOK ==
    /\ m_size \in Nat \cup {UnsignedMax}
    /\ m_min \in 0 .. IndexTypeMax
    /\ m_max \in 0 .. IndexTypeMax
    /\ m_inline.kind \in {"bitVector", "hashSet"}
    /\ Len(other) <= 1
    /\ status \in {"ok", "assertionFailed", "releaseAssertFailed", "preconditionViolated"}

(***************************************************************************)
(* RangeSpec: every integer of a contiguous range [a, b] is inserted once   *)
(* into an empty set.  The order is free for short ranges; in a long range  *)
(* the TopCount largest values come at any moment and the others ascending. *)
(***************************************************************************)
Ranges ==
    {<< a, a + len - 1 >> : a \in {0, 7}, len \in 1 .. (TopCount + 1)}
        \cup {<< 0, 776 >>, << 3, RangeEnd >>}

RangeValues == range[1] .. range[2]

RangeInit ==
    /\ m_size = Construct.m_size
    /\ m_min = Construct.m_min
    /\ m_max = Construct.m_max
    /\ m_inline = Construct.m_inline
    /\ other = << >>
    /\ assertEnabled \in BOOLEAN
    /\ status = "ok"
    /\ last = Call("construct", 0, FALSE, 0, "none")
    /\ inserted = {}
    /\ everHashSet = FALSE
    /\ range \in Ranges
    /\ set64 = Construct64
    /\ enteredWith = Wide(0)

RangeOffered ==
    LET missing == RangeValues \ inserted
    IN  {v \in missing : v > range[2] - TopCount \/ \A w \in missing : v <= w}

RangeNext == \E value \in RangeOffered : AddCall(value)

RangeSpec == RangeInit /\ [][RangeNext]_vars

(***************************************************************************)
(* WideSpec: a set of uint64_t built by add calls.  The values 0, 1, 2, ... *)
(* come in ascending order, one call at a time where NextAt64 allows it and *)
(* otherwise as a run of calls that fills the bitmap up to a target; the    *)
(* values of FarValues64 come at any moment.                                *)
(***************************************************************************)
FarValues64 ==
    {Wide(3000), Wide(3080), Wide(1000000), Wide(1100000), Wide(89478484),
     [hi |-> 131072, lo |-> 0], [hi |-> 262144, lo |-> 0], [hi |-> 524288, lo |-> 0]}

\* the values of dense at which add(dense) is one call of its own
NextAt64 ==
    {Wide(0), Wide(1), Wide(2), Wide(89478485), Wide(89478486),
     [hi |-> 65535, lo |-> 65533]}

\* the HashSet's own counters are 32 bits wide: the far values are offered to
\* sets of fewer than 2^30 members only
HashSetLimit64 == Wide(1073741824)

WideOffered ==
    {v \in FarValues64 : WideLess(Count64(set64.m_inline), HashSetLimit64)}
        \cup {v \in NextAt64 : v = set64.m_inline.dense}

\* the targets of a run: the least member above the dense block, and two more
FillTargets64 ==
    {e \in set64.m_inline.extras : \A f \in set64.m_inline.extras : ~WideLess(f, e)}
        \cup {Wide(80000000), [hi |-> 65535, lo |-> 65533]}

WideInit ==
    /\ m_size = Construct.m_size
    /\ m_min = Construct.m_min
    /\ m_max = Construct.m_max
    /\ m_inline = Construct.m_inline
    /\ other = << >>
    /\ assertEnabled \in BOOLEAN
    /\ status = "ok"
    /\ last = Call("construct", 0, FALSE, 0, "none")
    /\ inserted = {}
    /\ everHashSet = FALSE
    /\ range = << >>
    /\ set64 = Construct64
    /\ enteredWith = Wide(0)

\* set.add(value); no call is made once isBitVector() misnames the live
\* representation, where every member function reads an object that is not there
WideAddCall(value) ==
    /\ isBitVector64(set64) = (set64.m_inline.kind = "bitVector")
    /\ \E result \in {add64(set64, value)} :
          /\ set64' = result.self
          /\ last' = Call("add", value, result.isNewEntry, 0, result.transition)
          /\ enteredWith' = IF result.transition = "toHashSet"
                            THEN Count64(result.self.m_inline) ELSE enteredWith
    /\ UNCHANGED << fields, other, assertEnabled, status, inserted, everHashSet, range >>

\* set.add(dense); ...; set.add(target - 1): the calls of a run find the set
\* in BitVector mode and their values new and inside [m_min, m_max]
WideAddRunCall(target) ==
    /\ isBitVector64(set64) /\ set64.m_inline.kind = "bitVector"
    /\ set64.m_min = Wide(0) /\ WideLess(Wide(0), set64.m_inline.dense)
    /\ WideLess(set64.m_inline.dense, target)
    /\ set64.m_inline.extras # {}
    /\ \A e \in set64.m_inline.extras : ~WideLess(e, target)
    /\ WideLess(WidePlus(set64.m_size, WideMinus(target, set64.m_inline.dense)),
                UnsignedMax64)
    /\ set64' = addRun64(set64, target)
    /\ last' = Call("add", WideMinus(target, Wide(1)), TRUE, 0, "none")
    /\ UNCHANGED << fields, other, assertEnabled, status, inserted, everHashSet, range,
                    enteredWith >>

WideNext ==
    \/ \E value \in WideOffered : WideAddCall(value)
    \/ \E target \in FillTargets64 : WideAddRunCall(target)

WideSpec == WideInit /\ [][WideNext]_vars

(***************************************************************************)
(* Properties                                                               *)
(***************************************************************************)
\* no reserved value has got past the precondition of add or contains
ContractKept == status # "preconditionViolated"

AllProbed == ValidValues \cup ProbeValues

SetMin(S) == CHOOSE v \in S : \A w \in S : v <= w
SetMax(S) == CHOOSE v \in S : \A w \in S : v >= w

\* C1: after any sequence of add calls of valid values, contains(v) is true for
\* every value added so far and false for every valid value never added.
C1_ContainsIsMembership ==
    ContractKept => \A v \in AllProbed : contains(This, v) = (v \in inserted)

\* the set went to HashSet mode and came back, and holds 776 but not 1000
C1_Witness ==
    /\ everHashSet /\ isBitVector(This) /\ status = "ok"
    /\ 776 \in inserted /\ contains(This, 776)
    /\ 1000 \notin inserted /\ ~contains(This, 1000)
    /\ ~contains(This, 9)

\* C2: after every add call size() is the number of distinct values inserted
\* so far, in both modes and across the transitions.
C2_SizeIsCount ==
    ContractKept => size(This) = Cardinality(inserted)

\* the counter has just been rebuilt by transitionToBitVector
C2_Witness ==
    /\ last.op = "add" /\ last.transition = "toBitVector"
    /\ size(This) = Cardinality(inserted) /\ size(This) > 8

\* C3: add(v) returns isNewEntry = true exactly when v was not a member before
\* the call, and a call that returns false leaves size() as it was.
C3_IsNewEntryIffAbsent ==
    [][(last'.op = "add" /\ last'.transition # "assert" /\ status' # "preconditionViolated")
        => /\ last'.flag = (last'.value \notin inserted)
           /\ ~last'.flag => size(This)' = size(This)]_vars

\* a value has been added a second time, in HashSet mode
C3_Witness ==
    /\ last.op = "add" /\ ~last.flag /\ last.value \in inserted
    /\ ~isBitVector(This) /\ status = "ok"

\* C4: an add call that changes the representation leaves exactly the members
\* it found plus the added value.
C4_TransitionKeepsMembers ==
    [][(last'.op = "add" /\ last'.transition \in {"toHashSet", "toBitVector"}
            /\ status' # "preconditionViolated")
        => Members' = Members \cup {last'.value}]_vars

\* the set has come back to BitVector mode with all its members
C4_Witness ==
    /\ last.transition = "toBitVector" /\ everHashSet /\ m_inline.kind = "bitVector"
    /\ Members = inserted /\ Cardinality(Members) > 8 /\ m_min > 0

\* C5: validate() passes after any sequence of add calls: m_min and m_max are
\* the least and the greatest member of a non-empty set, and in BitVector mode
\* m_size is the number of set bits.
C5_ValidatePasses ==
    ContractKept =>
        /\ validate(This)
        /\ status # "releaseAssertFailed"
        /\ inserted # {} => (m_min = SetMin(inserted) /\ m_max = SetMax(inserted))
        /\ isBitVector(This) => m_size = Cardinality(m_inline.bits)

\* the bitmap has just been extended downwards
C5_Witness ==
    /\ last.op = "add" /\ last.flag /\ last.transition = "none"
    /\ isBitVector(This) /\ m_min = last.value /\ m_max > m_min + 64
    /\ Cardinality(inserted) > 2 /\ validate(This)

\* C6 for IndexType = uint16_t: after every add call the estimated cost of the
\* live representation is at most twice the estimated cost of the other one.
C6_MemoryWithinTwiceTheOther ==
    (ContractKept /\ inserted # {}) =>
        IF isBitVector(This)
        THEN (m_max - m_min) \div 8
                <= 2 * (Max(8, size(This)) * hashSetEstimatedOccupancyOverhead * SizeofIndexType)
        ELSE HashSetCapacity(m_inline) * SizeofIndexType <= 2 * ((m_max - m_min) \div 8)

\* the set has just moved to HashSet mode
C6_Witness ==
    /\ last.op = "add" /\ last.transition = "toHashSet" /\ status = "ok"
    /\ ~isBitVector(This) /\ HashSetCapacity(m_inline) > 0

\* C7: iterating from begin() to end() yields every member exactly once and
\* nothing else; in BitVector mode in ascending order, each value being the bit
\* position plus m_min; in HashSet mode each value is the stored key.
C7_IterationYieldsMembers ==
    ContractKept =>
        \A yielded \in {iterate(This)} :
            /\ Len(yielded) = Cardinality(inserted)
            /\ {yielded[i] : i \in 1 .. Len(yielded)} = inserted
            /\ isBitVector(This) =>
                  \A positions \in {BitVectorIterate(m_inline)} :
                      /\ \A i \in 1 .. Len(yielded) - 1 : yielded[i] < yielded[i + 1]
                      /\ \A i \in 1 .. Len(yielded) : yielded[i] = positions[i] + m_min
            /\ ~isBitVector(This) =>
                  \A i \in 1 .. Len(yielded) : yielded[i] \in m_inline.keys

\* a HashSet-mode set whose least member is not 0 is iterated
C7_Witness ==
    /\ ~isBitVector(This) /\ status = "ok" /\ m_min > 0
    /\ Len(iterate(This)) > 2 /\ begin(This).m_shift = m_min

\* C8: after a move construction the moved-from set is a valid empty set:
\* size() is 0, it contains nothing, iterating it yields nothing, validate() passes.
C8_MovedFromIsEmpty ==
    other # << >> =>
        /\ size(other[1]) = 0
        /\ \A v \in AllProbed : ~contains(other[1], v)
        /\ iterate(other[1]) = << >>
        /\ validate(other[1])

\* C9 as stated: a call of add or contains with a reserved value always ends in
\* an assertion failure.
C9_ReservedValueAlwaysAsserts ==
    (last.op \in {"add", "contains"} /\ last.value \in Sentinels)
        => (status = "assertionFailed" /\ last.transition = "assert")

\* C9, amended: where ASSERT is compiled in, a call of add or contains with a
\* reserved value ends in an assertion failure and changes nothing of the set.
C9_ReservedValueAssertsInDebug ==
    [][(assertEnabled /\ last'.op \in {"add", "contains"} /\ last'.value \in Sentinels)
        => /\ status' = "assertionFailed"
           /\ last'.transition = "assert"
           /\ ~last'.flag
           /\ UNCHANGED << fields, inserted >>]_vars

\* add of the deleted value has been stopped by the assertion, in HashSet mode
C9_Witness ==
    /\ assertEnabled /\ status = "assertionFailed"
    /\ last.op = "add" /\ last.value = DeletedValue
    /\ ~isBitVector(This) /\ DeletedValue \notin Members

\* C10 for IndexType = uint16_t: once every integer of a contiguous range has
\* been inserted into an empty set, in whatever order, the set is in BitVector
\* mode.
C10_DenseRangeEndsInBitVector ==
    (range # << >> /\ inserted = RangeValues) =>
        (isBitVector(This) /\ m_inline.kind = "bitVector")

\* a long range is complete, and the set was in HashSet mode on the way
C10_Witness ==
    /\ range # << >> /\ inserted = RangeValues /\ range[2] - range[1] >= 776
    /\ everHashSet /\ isBitVector(This)

\* C12: in BitVector mode bit i is set exactly when m_min + i is a member, every
\* set bit lies in [0, m_max - m_min], bit 0 and bit m_max - m_min are set in a
\* non-empty set; and an add below m_min that stays in BitVector mode moves
\* every bit p to p + (old m_min - value) and sets bit 0.
C12_BitmapMirrorsMembers ==
    /\ [](( ContractKept /\ isBitVector(This) /\ m_inline.kind = "bitVector") =>
            /\ \A i \in m_inline.bits \cup {v - m_min : v \in inserted} :
                  BitVectorGet(m_inline, i) = (m_min + i \in inserted)
            /\ \A p \in m_inline.bits : 0 <= p /\ p <= m_max - m_min
            /\ inserted # {} =>
                  (BitVectorGet(m_inline, 0) /\ BitVectorGet(m_inline, m_max - m_min)))
    /\ [][(/\ last'.op = "add" /\ last'.transition = "none" /\ status' = "ok"
           /\ isBitVector(This) /\ m_size # 0 /\ last'.value < m_min)
          => /\ m_inline'.kind = "bitVector"
             /\ m_inline'.bits = {p + (m_min - last'.value) : p \in m_inline.bits} \cup {0}
             /\ m_min' = last'.value /\ m_max' = m_max]_vars

\* 0 has been added below the members 10 and 775 without leaving BitVector mode
C12_Witness ==
    /\ last.op = "add" /\ last.value = 0 /\ last.flag /\ last.transition = "none"
    /\ status = "ok" /\ isBitVector(This) /\ inserted = {0, 10, 775}
    /\ m_inline.bits = {0, 10, 775} /\ m_min = 0 /\ m_max = 775

\* C15: an add call that returns isNewEntry = false changes nothing: the mode,
\* m_min, m_max, m_size, the members and the HashSet's capacity are as before,
\* and no transition is made.
C15_NotNewChangesNothing ==
    [][(last'.op = "add" /\ last'.transition # "assert" /\ ~last'.flag
            /\ status' # "preconditionViolated")
        => /\ UNCHANGED << m_size, m_min, m_max, m_inline >>
           /\ isBitVector(This)' = isBitVector(This)
           /\ Members' = Members
           /\ last'.transition = "none"
           /\ status' = "ok"]_vars

\* 776 has been added again after the set came back to BitVector mode
C15_Witness ==
    /\ last.op = "add" /\ ~last.flag /\ last.value = 776 /\ status = "ok"
    /\ everHashSet /\ isBitVector(This) /\ m_size = Cardinality(inserted)

\* C11: an add in BitVector mode of a value outside [m_min, m_max] of a
\* non-empty set moves the set to HashSet mode exactly when
\* 2 * (max(8, n) * 3 * sizeof(IndexType)) < (newMax - newMin) / 8 in exact
\* integers, n being the number of members with the value counted, and leaves
\* it in BitVector mode otherwise; a set of 0 and 1,000,000 is in HashSet mode.
\* Stated for IndexType = uint64_t.
C11_ToHashSetExactlyWhenCheaper ==
    [][(/\ last'.op = "add"
        /\ isBitVector64(set64) /\ set64.m_size # Wide(0)
        /\ WideLess(last'.value, set64.m_min) \/ WideLess(set64.m_max, last'.value))
       => LET n == Count64(set64'.m_inline)
              newMin == WideMin(set64.m_min, last'.value)
              newMax == WideMax(set64.m_max, last'.value)
              cheaper ==
                  WideLess(WideTimes(WideTimes(WideTimes(WideMax(Wide(8), n),
                                                         hashSetEstimatedOccupancyOverhead),
                                               SizeofIndexType64), 2),
                           WideDiv8(WideMinus(newMax, newMin)))
          IN  /\ (last'.transition = "toHashSet") = cheaper
              /\ isBitVector64(set64') = ~cheaper
              /\ (set64'.m_inline.dense = Wide(1)
                    /\ set64'.m_inline.extras = {Wide(1000000)}) => ~isBitVector64(set64')
      ]_vars

\* C13: an add of a new member in HashSet mode moves the set to BitVector mode
\* exactly when 2 * floor((m_max - m_min) / 8) < capacity * sizeof(IndexType)
\* in exact integers, m_min and m_max being those after the call, and leaves
\* it in HashSet mode otherwise.  Stated for IndexType = uint64_t.
C13_ToBitVectorExactlyWhenCheaper ==
    [][(last'.op = "add" /\ ~isBitVector64(set64) /\ last'.flag)
       => LET capacity == hashSetAdd64(set64.m_inline, last'.value).h.capacity
              cheaper ==
                  WideLess(WideTimes(WideDiv8(WideMinus(set64'.m_max, set64'.m_min)), 2),
                           WideTimes(capacity, SizeofIndexType64))
          IN  /\ set64'.m_min = WideMin(set64.m_min, last'.value)
              /\ set64'.m_max = WideMax(set64.m_max, last'.value)
              /\ (last'.transition = "toBitVector") = cheaper
              /\ isBitVector64(set64') = cheaper
      ]_vars

\* C17: after an add that moved the set to HashSet mode with n members, an add
\* moves it back to BitVector mode only when the table has more than
\* 12 * max(8, n) buckets.  Stated for IndexType = uint64_t.
C17_NoWayBackWithoutGrowth ==
    [][(last'.op = "add" /\ last'.transition = "toBitVector")
       => LET capacity == hashSetAdd64(set64.m_inline, last'.value).h.capacity
          IN  WideLess(WideTimes(WideMax(Wide(8), enteredWith), 12), capacity)
      ]_vars

\* C16: the mode m_size names is the representation alive in m_inline; m_size
\* of a BitVector-mode set is never the reserved maximum, and it is 0 only for
\* the empty set.  Stated for IndexType = uint64_t.
C16_ModeNamesLiveRepresentation ==
    /\ isBitVector64(set64) = (set64.m_inline.kind = "bitVector")
    /\ set64.m_inline.kind = "bitVector" => set64.m_size # UnsignedMax64
    /\ (set64.m_size = Wide(0)) =
          (set64.m_inline.kind = "bitVector" /\ Count64(set64.m_inline) = Wide(0))

\* C14: the mode changes only in an add call that returns isNewEntry = true;
\* the first add into an empty set does not change it, and an add in BitVector
\* mode of a value inside [m_min, m_max] changes neither the mode nor m_min
\* nor m_max.  Stated for IndexType = uint64_t.
C14_ModeChangesOnlyInNewAdd ==
    [][/\ isBitVector64(set64') # isBitVector64(set64) => (last'.op = "add" /\ last'.flag)
       /\ (last'.op = "add" /\ set64.m_size = Wide(0))
             => isBitVector64(set64') = isBitVector64(set64)
       /\ (/\ last'.op = "add" /\ isBitVector64(set64) /\ set64.m_size # Wide(0)
           /\ ~WideLess(last'.value, set64.m_min) /\ ~WideLess(set64.m_max, last'.value))
             => /\ isBitVector64(set64') = isBitVector64(set64)
                /\ set64'.m_min = set64.m_min /\ set64'.m_max = set64.m_max
      ]_vars

\* C6 for IndexType = uint64_t: after every add call the estimated cost of the
\* live representation is at most twice the estimated cost of the other one.
C6_MemoryWithinTwiceTheOther64 ==
    (Count64(set64.m_inline) # Wide(0)
        /\ isBitVector64(set64) = (set64.m_inline.kind = "bitVector")) =>
        LET bitVectorSize == WideDiv8(WideMinus(set64.m_max, set64.m_min))
            members == Count64(set64.m_inline)
        IN  IF isBitVector64(set64)
            THEN ~WideLess(WideTimes(WideTimes(WideTimes(WideMax(Wide(8), members),
                                                         hashSetEstimatedOccupancyOverhead),
                                               SizeofIndexType64), 2),
                           bitVectorSize)
            ELSE ~WideLess(WideTimes(bitVectorSize, 2),
                           WideTimes(set64.m_inline.capacity, SizeofIndexType64))

\* C10 for IndexType = uint64_t: once every integer of the range [0, b] has
\* been inserted into an empty set, the set is in BitVector mode.
C10_DenseRangeEndsInBitVector64 ==
    (set64.m_inline.extras = {} /\ set64.m_inline.dense # Wide(0)) =>
        (isBitVector64(set64) /\ set64.m_inline.kind = "bitVector")

(***************************************************************************)
(* C11, C13 and C14 as they stand for IndexType = uint16_t, where no        *)
(* `unsigned` of add truncates or wraps                                     *)
(***************************************************************************)
\* C11 for uint16_t: the add of a value outside [m_min, m_max] goes to HashSet
\* mode exactly when 2 * (max(8, n) * 3 * 2) < (newMax - newMin) / 8.
C11_ToHashSetExactlyWhenCheaper16 ==
    [][(/\ last'.op = "add" /\ last'.transition # "assert" /\ status' = "ok"
        /\ isBitVector(This) /\ m_size # 0
        /\ last'.value < m_min \/ last'.value > m_max)
       => LET n == Cardinality(inserted')
              newMin == Min(m_min, last'.value)
              newMax == Max(m_max, last'.value)
              cheaper == 2 * (Max(8, n) * hashSetEstimatedOccupancyOverhead * SizeofIndexType)
                            < (newMax - newMin) \div 8
          IN  /\ (last'.transition = "toHashSet") = cheaper
              /\ isBitVector(This)' = ~cheaper
      ]_vars

\* C13 for uint16_t: the add of a new member in HashSet mode goes to BitVector
\* mode exactly when 2 * ((m_max - m_min) / 8) < capacity * 2.
C13_ToBitVectorExactlyWhenCheaper16 ==
    [][(last'.op = "add" /\ status' = "ok" /\ ~isBitVector(This) /\ last'.flag)
       => LET capacity == HashSetCapacity(HashSetAdd(m_inline, last'.value).h)
              cheaper == 2 * ((m_max' - m_min') \div 8) < capacity * SizeofIndexType
          IN  /\ m_min' = Min(m_min, last'.value) /\ m_max' = Max(m_max, last'.value)
              /\ (last'.transition = "toBitVector") = cheaper
              /\ isBitVector(This)' = cheaper
      ]_vars

\* C14 for uint16_t: the mode changes only in an add that returns isNewEntry =
\* true; the queries change no field; the first add and an add inside
\* [m_min, m_max] do not change the mode, the latter neither m_min nor m_max.
C14_ModeChangesOnlyInNewAdd16 ==
    [][/\ isBitVector(This)' # isBitVector(This) => (last'.op = "add" /\ last'.flag)
       /\ last'.op \in {"contains", "size", "iterate", "memoryUse", "validate"}
             => UNCHANGED << m_size, m_min, m_max, m_inline >>
       /\ (last'.op = "add" /\ last'.transition # "assert" /\ m_size = 0)
             => isBitVector(This)' = isBitVector(This)
       /\ (/\ last'.op = "add" /\ last'.transition # "assert"
           /\ isBitVector(This) /\ m_size # 0
           /\ last'.value >= m_min /\ last'.value <= m_max)
             => /\ isBitVector(This)' = isBitVector(This)
                /\ m_min' = m_min /\ m_max' = m_max
      ]_vars

====
